---- MODULE Spec2Model ----
(***************************************************************************)
(* Model of fortios_datasheet_download.py: link extraction, the PDF URL    *)
(* cleaner, the PDF link resolver, the downloader and the two-phase        *)
(* orchestrator (main) with its two thread pools.                          *)
(*                                                                         *)
(* A string is a sequence of characters.  A character is a TLA+ string     *)
(* atom: "." "p" "P" "/" "#" ... are single characters; a few atoms stand  *)
(* for a run of characters that holds no delimiter and no piece of a       *)
(* marker ("data-sheets", "datasheet"), and an origin atom stands for      *)
(* "scheme://host".  "U0130" is the character U+0130 (capital I with dot   *)
(* above), whose str.lower() is the two characters "i" U+0307.             *)
(***************************************************************************)
EXTENDS Integers, Sequences, FiniteSets, Bags, TLC

VARIABLES
    pc,             \* position of main / of the driver of a function call
    arg,            \* inputs of the function call under study
    ret,            \* its result
    server,         \* the fixed responses of the web servers
    files,          \* output directory: file name -> bytes
    rtasks,         \* phase 1 futures, in submission order
    resolved,       \* main: resolved
    download_jobs,  \* main: download_jobs
    dtasks,         \* phase 2 futures, in submission order
    printed,        \* console lines (a bag)
    net,            \* HTTP GETs issued so far (a bag of URLs)
    wlog            \* history of write_bytes calls

vars == <<pc, arg, ret, server, files, rtasks, resolved, download_jobs,
          dtasks, printed, net, wlog>>

----------------------------------------------------------------------------
(* Bounds of the checked input spaces. *)

MaxSegs == 4
MaxAnchors == 3

----------------------------------------------------------------------------
(* Program constants. *)

RESOLVE_WORKERS == 8
DOWNLOAD_WORKERS == 4

\* Python's None; no string equals it.
None == <<"<None>">>

\* Truthiness of an optional string (None and "" are falsy).
Truthy(x) == x # None /\ x # <<>>

----------------------------------------------------------------------------
(* str methods. *)

\* str.lower() of one character.
LowerChar(c) ==
    CASE c = "P" -> <<"p">>
      [] c = "D" -> <<"d">>
      [] c = "F" -> <<"f">>
      [] c = "Data-Sheets" -> <<"data-sheets">>
      [] c = "U0130" -> <<"i", "U0307">>
      [] OTHER -> <<c>>

RECURSIVE lower(_)
lower(s) == IF s = <<>> THEN <<>> ELSE LowerChar(Head(s)) \o lower(Tail(s))

\* s[i:j] with Python's clamping, 0-based, j exclusive.
Slice(s, i, j) ==
    LET hi == IF j > Len(s) THEN Len(s) ELSE j
    IN  IF i >= hi THEN <<>> ELSE SubSeq(s, i + 1, hi)

StartsWithAt(s, i, pat) ==
    /\ i + Len(pat) <= Len(s)
    /\ \A k \in 1..Len(pat) : s[i + k] = pat[k]

\* str.find(pat): least 0-based index of an occurrence, or -1.
find(s, pat) ==
    LET hits == {i \in 0..Len(s) : StartsWithAt(s, i, pat)}
    IN  IF hits = {} THEN -1
        ELSE CHOOSE i \in hits : \A j \in hits : i <= j

\* str.rfind(pat).
rfind(s, pat) ==
    LET hits == {i \in 0..Len(s) : StartsWithAt(s, i, pat)}
    IN  IF hits = {} THEN -1
        ELSE CHOOSE i \in hits : \A j \in hits : i >= j

IsSpace(c) == c = " "

\* str.strip().
RECURSIVE lstrip(_)
lstrip(s) == IF s # <<>> /\ IsSpace(Head(s)) THEN lstrip(Tail(s)) ELSE s

RECURSIVE rstrip(_)
rstrip(s) ==
    IF s # <<>> /\ IsSpace(s[Len(s)]) THEN rstrip(SubSeq(s, 1, Len(s) - 1))
    ELSE s

strip(s) == rstrip(lstrip(s))

\* str.split(sep) for a one-character separator: a list of strings.
RECURSIVE split(_, _)
split(s, sep) ==
    LET i == find(s, <<sep>>)
    IN  IF i = -1 THEN <<s>>
        ELSE <<Slice(s, 0, i)>> \o split(Slice(s, i + 1, Len(s)), sep)

\* sep.join(parts).
RECURSIVE join(_, _)
join(parts, sep) ==
    IF parts = <<>> THEN <<>>
    ELSE IF Len(parts) = 1 THEN parts[1]
    ELSE parts[1] \o <<sep>> \o join(Tail(parts), sep)

\* str.rsplit("/", 1)[-1]: what follows the last "/" (all of s without one).
LastSegment(s) ==
    LET i == rfind(s, <<"/">>)
    IN  IF i = -1 THEN s ELSE Slice(s, i + 1, Len(s))

----------------------------------------------------------------------------
(* urllib.parse on strings whose scheme and host are one origin atom. *)

HomeOrigin == "https://www.fortinet.com"
Origins == {HomeOrigin, "https://cdn.fortinet.com", "http://other.com"}

SchemeOf(o) == IF o = "http://other.com" THEN "http" ELSE "https"

\* urlparse: (origin, path, query, fragment); the fragment starts at the
\* first "#", the query at the first "?" before it.
urlparse(url) ==
    LET h     == find(url, <<"#">>)
        nofr  == IF h = -1 THEN url ELSE Slice(url, 0, h)
        frag  == IF h = -1 THEN <<>> ELSE Slice(url, h + 1, Len(url))
        q     == find(nofr, <<"?">>)
        noq   == IF q = -1 THEN nofr ELSE Slice(nofr, 0, q)
        query == IF q = -1 THEN <<>> ELSE Slice(nofr, q + 1, Len(nofr))
        hasO  == noq # <<>> /\ noq[1] \in Origins
    IN  [origin   |-> IF hasO THEN <<noq[1]>> ELSE <<>>,
         path     |-> IF hasO THEN Tail(noq) ELSE noq,
         query    |-> query,
         fragment |-> frag]

\* urlunparse: an empty query or fragment loses its delimiter.
urlunparse(u) ==
    (IF u.origin # <<>> /\ u.path # <<>> /\ u.path[1] # "/"
         THEN u.origin \o <<"/">> \o u.path
         ELSE u.origin \o u.path)
    \o (IF u.query # <<>> THEN <<"?">> \o u.query ELSE <<>>)
    \o (IF u.fragment # <<>> THEN <<"#">> \o u.fragment ELSE <<>>)

\* segments[1:-1] = filter(None, segments[1:-1])
FilterMiddle(segs) ==
    IF Len(segs) <= 2 THEN segs
    ELSE <<segs[1]>>
         \o SelectSeq(SubSeq(segs, 2, Len(segs) - 1), LAMBDA x : x # <<>>)
         \o <<segs[Len(segs)]>>

\* The dot-segment loop of urljoin.
RECURSIVE ResolveDots(_, _)
ResolveDots(segs, acc) ==
    IF segs = <<>> THEN acc
    ELSE IF Head(segs) = <<".", ".">>
         THEN ResolveDots(Tail(segs),
                          IF acc = <<>> THEN acc ELSE SubSeq(acc, 1, Len(acc) - 1))
    ELSE IF Head(segs) = <<".">> THEN ResolveDots(Tail(segs), acc)
    ELSE ResolveDots(Tail(segs), Append(acc, Head(segs)))

\* base_parts: the segments of the base path without its last, non-directory one.
BaseParts(bpath) ==
    IF split(bpath, "/")[Len(split(bpath, "/"))] # <<>>
        THEN SubSeq(split(bpath, "/"), 1, Len(split(bpath, "/")) - 1)
    ELSE split(bpath, "/")

\* segments: of the reference alone when its path is rooted.
Segments(bpath, path) ==
    IF path[1] = "/" THEN split(path, "/")
    ELSE FilterMiddle(BaseParts(bpath) \o split(path, "/"))

\* resolved_path, joined; "/" when that is empty.
ResolvedPath(segments) ==
    IF join(IF segments[Len(segments)] \in {<<".">>, <<".", ".">>}
                THEN Append(ResolveDots(segments, <<>>), <<>>)
            ELSE ResolveDots(segments, <<>>), "/") = <<>>
        THEN <<"/">>
    ELSE join(IF segments[Len(segments)] \in {<<".">>, <<".", ".">>}
                  THEN Append(ResolveDots(segments, <<>>), <<>>)
              ELSE ResolveDots(segments, <<>>), "/")

\* urljoin once both URLs are parsed (b the base, u the reference).
JoinParsed(url, b, u) ==
    IF u.origin # <<>> /\ SchemeOf(u.origin[1]) # SchemeOf(b.origin[1])
        THEN url
    ELSE IF u.origin # <<>> THEN urlunparse(u)
    ELSE IF u.path = <<>>
        THEN urlunparse([origin   |-> b.origin,
                         path     |-> b.path,
                         query    |-> IF u.query = <<>> THEN b.query ELSE u.query,
                         fragment |-> u.fragment])
    ELSE urlunparse([origin   |-> b.origin,
                     path     |-> ResolvedPath(Segments(b.path, u.path)),
                     query    |-> u.query,
                     fragment |-> u.fragment])

\* urljoin(base, url).  References that start with "//" are not modelled.
urljoin(base, url) ==
    IF base = <<>> THEN url
    ELSE IF url = <<>> THEN base
    ELSE JoinParsed(url, urlparse(base), urlparse(url))

\* Mutant of urldefrag: the fragment is kept.
urldefrag_KeepsFragment(url) == url

\* urldefrag(url)[0]
urldefrag(url) ==
    IF find(url, <<"#">>) # -1
        THEN urlunparse([urlparse(url) EXCEPT !.fragment = <<>>])
    ELSE url

----------------------------------------------------------------------------
(* The functions of the program. *)

PdfMarker == <<".", "p", "d", "f">>

clean_pdf_url(url) ==
    LET pdf_pos == find(lower(url), PdfMarker)
    IN  IF pdf_pos = -1 THEN None ELSE Slice(url, 0, pdf_pos + 4)

\* An HTTP response: ok is FALSE for a network error or a non-2xx status
\* (requests.get raises, or raise_for_status does).
HttpError == [ok |-> FALSE, body |-> <<>>]

\* requests.get(url) followed by raise_for_status(), against the fixed servers.
HttpGet(url) == IF url \in DOMAIN server THEN server[url] ELSE HttpError

\* An <a> element: has is FALSE when it carries no href attribute.
Anchor(h) == [has |-> TRUE, href |-> h]
NoHrefAnchor == [has |-> FALSE, href |-> <<>>]

\* soup.find_all("a", href=True)
find_all_a_href(page) == SelectSeq(page, LAMBDA a : a.has)

\* The loop of extract_urls over the anchors that are left.
RECURSIVE ExtractLoop(_, _, _)
ExtractLoop(page_url, tags, urls) ==
    IF tags = <<>> THEN urls
    ELSE LET href == strip(Head(tags).href)
         IN  IF href = <<>> THEN ExtractLoop(page_url, Tail(tags), urls)
             ELSE ExtractLoop(page_url, Tail(tags),
                              urls \cup {urldefrag(urljoin(page_url, href))})

\* extract_urls: raised is TRUE when the fetch fails; fetched lists the GETs.
extract_urls(page_url) ==
    LET response == HttpGet(page_url)
    IN  IF ~response.ok
            THEN [raised |-> TRUE, value |-> {}, fetched |-> <<page_url>>]
        ELSE [raised  |-> FALSE,
              value   |-> ExtractLoop(page_url, find_all_a_href(response.body), {}),
              fetched |-> <<page_url>>]

\* The loop of find_pdf_url over the anchors that are left.
RECURSIVE FindLoop(_, _)
FindLoop(page_url, tags) ==
    IF tags = <<>> THEN None
    ELSE LET candidate == strip(Head(tags).href)
         IN  IF candidate = <<>> THEN FindLoop(page_url, Tail(tags))
             ELSE LET cleaned == clean_pdf_url(urljoin(page_url, candidate))
                  IN  IF Truthy(cleaned) THEN cleaned
                      ELSE FindLoop(page_url, Tail(tags))

find_pdf_url(page_url) ==
    LET response == HttpGet(page_url)
    IN  IF ~response.ok
            THEN [raised |-> TRUE, value |-> None, fetched |-> <<page_url>>]
        ELSE [raised  |-> FALSE,
              value   |-> FindLoop(page_url, find_all_a_href(response.body)),
              fetched |-> <<page_url>>]

\* Mutant of resolve_pdf_link: the page is fetched even for a PDF URL.
resolve_pdf_link_AlwaysFetches(datasheet_url) ==
    [raised  |-> find_pdf_url(datasheet_url).raised,
     value   |-> <<datasheet_url,
                   IF Truthy(clean_pdf_url(datasheet_url))
                       THEN clean_pdf_url(datasheet_url)
                   ELSE find_pdf_url(datasheet_url).value>>,
     fetched |-> find_pdf_url(datasheet_url).fetched]

\* Mutant of resolve_pdf_link: a PDF URL is returned as it came, not cleaned.
resolve_pdf_link_ReturnsRaw(datasheet_url) ==
    IF Truthy(clean_pdf_url(datasheet_url))
        THEN [raised |-> FALSE, value |-> <<datasheet_url, datasheet_url>>,
              fetched |-> <<>>]
    ELSE [raised  |-> find_pdf_url(datasheet_url).raised,
          value   |-> <<datasheet_url, find_pdf_url(datasheet_url).value>>,
          fetched |-> find_pdf_url(datasheet_url).fetched]

resolve_pdf_link(datasheet_url) ==
    LET pdf_url == clean_pdf_url(datasheet_url)
    IN  IF Truthy(pdf_url)
            THEN [raised |-> FALSE, value |-> <<datasheet_url, pdf_url>>,
                  fetched |-> <<>>]
        ELSE LET r == find_pdf_url(datasheet_url)
             IN  [raised  |-> r.raised,
                  value   |-> <<datasheet_url, r.value>>,
                  fetched |-> r.fetched]

\* The GETs of a call, added to the record of GETs issued.
Sent(fetched) == net (+) SetToBag({fetched[i] : i \in 1..Len(fetched)})

----------------------------------------------------------------------------
(* Input spaces. *)

\* All concatenations of at most n of the given pieces.
RECURSIVE Concats(_, _)
Concats(pieces, n) ==
    IF n = 0 THEN {<<>>}
    ELSE LET S == Concats(pieces, n - 1)
         IN  S \cup {s \o t : s \in S, t \in pieces}

\* All sequences of at most n elements of S.
RECURSIVE SeqsUpTo(_, _)
SeqsUpTo(S, n) ==
    IF n = 0 THEN {<<>>}
    ELSE LET T == SeqsUpTo(S, n - 1)
         IN  T \cup {Append(t, x) : t \in T, x \in S}

\* Pieces of the strings given to clean_pdf_url.
CleanPieces ==
    { <<".", "p", "d", "f">>, <<".", "P", "D", "F">>, <<".", "p">>,
      <<"d", "f">>, <<".">>, <<"U0130">>, <<"/">>, <<"?">>, <<"a">> }

\* The state of main and of the pools while a single function is studied.
MainIdle ==
    /\ rtasks = <<>>
    /\ resolved = <<>>
    /\ download_jobs = <<>>
    /\ dtasks = <<>>
    /\ printed = EmptyBag
    /\ wlog = {}

MainUnchanged == UNCHANGED <<rtasks, resolved, download_jobs, dtasks, printed, wlog>>

----------------------------------------------------------------------------
(* clean_pdf_url on its own. *)

InitClean ==
    /\ pc = "call"
    /\ arg \in Concats(CleanPieces, MaxSegs)
    /\ ret = None
    /\ server = <<>>
    /\ files = <<>>
    /\ net = EmptyBag
    /\ MainIdle

CallClean ==
    /\ pc = "call"
    /\ ret' = clean_pdf_url(arg)
    /\ pc' = "return"
    /\ UNCHANGED <<arg, server, files, net>>
    /\ MainUnchanged

NextClean == CallClean

SpecClean == InitClean /\ [][NextClean]_vars

\* A case-insensitive occurrence of ".pdf" in S at 0-based position p.
PdfAt(S, p) ==
    /\ p + 4 <= Len(S)
    /\ S[p + 1] = "."
    /\ S[p + 2] \in {"p", "P"}
    /\ S[p + 3] \in {"d", "D"}
    /\ S[p + 4] \in {"f", "F"}

ContainsPdf(S) == \E p \in 0..Len(S) : PdfAt(S, p)

FirstPdfAt(S) == CHOOSE p \in 0..Len(S) : PdfAt(S, p) /\ \A q \in 0..(p - 1) : ~PdfAt(S, q)

\* C8: clean_pdf_url(S) is absent when S holds no case-insensitive ".pdf",
\* and otherwise is the prefix of S that ends with the first such occurrence.
C8_CleanIsPrefixThroughFirstPdf ==
    pc = "return" =>
        IF ContainsPdf(arg) THEN ret = Slice(arg, 0, FirstPdfAt(arg) + 4)
        ELSE ret = None

----------------------------------------------------------------------------
(* resolve_pdf_link on its own. *)

\* Datasheet URLs given to resolve_pdf_link.
ResolveUrls ==
    { <<HomeOrigin, "/", "data-sheets", "/", "a">>,
      <<HomeOrigin, "/", "d", "/", "data-sheets", "?", "a">>,
      <<HomeOrigin, "/", "data-sheets", "/", "a", ".", "p", "d", "f">>,
      <<HomeOrigin, "/", "data-sheets", "/", "a", ".", "P", "d", "F", "?", "x">> }

\* Anchors of a datasheet page.
ResolveAnchors ==
    { Anchor(<<"/", "f", "/", "x", ".", "p", "d", "f">>),
      Anchor(<<" ", "y", ".", "P", "D", "F", "?", "a", " ">>),
      Anchor(<<"https://cdn.fortinet.com", "/", "x", ".", "p", "d", "f", "#", "p">>),
      Anchor(<<"http://other.com", "/", "b">>),
      Anchor(<<"#", "x">>),
      Anchor(<<" ">>),
      Anchor(<<"/", "a">>),
      NoHrefAnchor }

InitResolve ==
    /\ pc = "call"
    /\ arg \in ResolveUrls
    /\ ret = None
    /\ \E r \in {HttpError} \cup
                {[ok |-> TRUE, body |-> b] : b \in SeqsUpTo(ResolveAnchors, MaxAnchors)} :
           server = (arg :> r)
    /\ files = <<>>
    /\ net = EmptyBag
    /\ MainIdle

CallResolve ==
    /\ pc = "call"
    /\ LET r == resolve_pdf_link(arg)
       IN  /\ ret' = r
           /\ net' = Sent(r.fetched)
    /\ pc' = "return"
    /\ UNCHANGED <<arg, server, files>>
    /\ MainUnchanged

NextResolve == CallResolve

SpecResolve == InitResolve /\ [][NextResolve]_vars

\* The anchors of a page, in document order, that carry an href whose
\* absolute form against u holds a PDF marker.
PdfAnchorIndexes(u, page) ==
    {i \in 1..Len(page) :
        page[i].has /\ ContainsPdf(urljoin(u, strip(page[i].href)))}

\* C9: a URL that holds ".pdf" is resolved without any GET to its own
\* cleaned form; any other URL is fetched exactly once and, when the fetch
\* succeeds, resolved to the cleaned absolute URL of the first anchor whose
\* joined href holds a PDF marker, or to absent (not an error) without one.
C9_ResolveShortcutOrFirstAnchor ==
    pc = "return" =>
        IF ContainsPdf(arg)
            THEN /\ net = EmptyBag
                 /\ ~ret.raised
                 /\ ret.value = <<arg, clean_pdf_url(arg)>>
        ELSE /\ net = SetToBag({arg})
             /\ server[arg].ok =>
                    LET page == server[arg].body
                        idx  == PdfAnchorIndexes(arg, page)
                    IN  /\ ~ret.raised
                        /\ ret.value[1] = arg
                        /\ IF idx = {} THEN ret.value[2] = None
                           ELSE LET i == CHOOSE k \in idx : \A j \in idx : k <= j
                                IN  ret.value[2] =
                                      clean_pdf_url(urljoin(arg, strip(page[i].href)))

\* The resolver skipped a leading anchor without a marker and took the
\* next one.
C9_Witness ==
    /\ pc = "return"
    /\ ~ContainsPdf(arg)
    /\ server[arg].ok
    /\ Len(server[arg].body) = 2
    /\ PdfAnchorIndexes(arg, server[arg].body) = {2}
    /\ ret.value[2] # None
    /\ BagCardinality(net) = 1

----------------------------------------------------------------------------
(* extract_urls on its own. *)

\* main: page_url
LandingUrl == <<HomeOrigin, "/", "products", "/", "next-generation-firewall">>

\* Page URLs given to extract_urls.
ExtractUrls ==
    { LandingUrl,
      <<HomeOrigin, "/", "d", "/", "p", "?", "q">>,
      <<HomeOrigin, "/", "p", "#", "top">> }

\* Anchors of a page.
ExtractAnchors ==
    { Anchor(<<"/", "a">>),
      Anchor(<<"/", "a", "#", "y">>),
      Anchor(<<" ", "b", "#", "x", " ">>),
      Anchor(<<"http://other.com", "/", "b">>),
      Anchor(<<"https://cdn.fortinet.com", "/", "b", "#">>),
      Anchor(<<"#", "frag">>),
      Anchor(<<"?", "y">>),
      Anchor(<<".", ".", "/", "c">>),
      Anchor(<<>>),
      Anchor(<<" ">>),
      NoHrefAnchor }

InitExtract ==
    /\ pc = "call"
    /\ arg \in ExtractUrls
    /\ ret = None
    /\ \E r \in {HttpError} \cup
                {[ok |-> TRUE, body |-> b] : b \in SeqsUpTo(ExtractAnchors, MaxAnchors)} :
           server = (arg :> r)
    /\ files = <<>>
    /\ net = EmptyBag
    /\ MainIdle

CallExtract ==
    /\ pc = "call"
    /\ LET r == extract_urls(arg)
       IN  /\ ret' = r
           /\ net' = Sent(r.fetched)
    /\ pc' = "return"
    /\ UNCHANGED <<arg, server, files>>
    /\ MainUnchanged

NextExtract == CallExtract

SpecExtract == InitExtract /\ [][NextExtract]_vars

\* The trimmed hrefs of the anchors of a page that carry a non-empty one.
TrimmedHrefs(page) ==
    {strip(page[i].href) : i \in {k \in 1..Len(page) :
                                     page[k].has /\ strip(page[k].href) # <<>>}}

HasFragment(url) == \E i \in 1..Len(url) : url[i] = "#"

\* The page URL without its own fragment, as urllib writes it.
WithoutFragment(url) == urlunparse([urlparse(url) EXCEPT !.fragment = <<>>])

\* The parts of C10 that do not speak of fragment-only hrefs: the result is
\* the set of the absolute, fragment-stripped forms of the non-empty trimmed
\* hrefs; empty hrefs add nothing and no result holds a fragment.
ExtractedSetIsRight ==
    LET page == server[arg].body
    IN  /\ ~ret.raised
        /\ ret.value = {urldefrag(urljoin(arg, h)) : h \in TrimmedHrefs(page)}
        /\ Cardinality(ret.value) <= Cardinality(TrimmedHrefs(page))
        /\ TrimmedHrefs(page) = {} => ret.value = {}
        /\ \A u \in ret.value : ~HasFragment(u)

\* C10 as stated: extract_urls returns exactly the absolute, fragment-free
\* forms of the non-empty trimmed hrefs, and a fragment-only href contributes
\* the page URL itself.
C10_Orig_FragmentOnlyGivesPageUrl ==
    pc = "return" /\ server[arg].ok =>
        /\ ExtractedSetIsRight
        /\ \A h \in TrimmedHrefs(server[arg].body) :
               h[1] = "#" => arg \in ret.value

\* C10 amended: as above, but a fragment-only href contributes the page URL
\* without the page URL's own fragment.
C10_FragmentOnlyGivesPageUrlWithoutFragment ==
    pc = "return" /\ server[arg].ok =>
        /\ ExtractedSetIsRight
        /\ \A h \in TrimmedHrefs(server[arg].body) :
               h[1] = "#" => WithoutFragment(arg) \in ret.value

\* A page with a fragment-only href, an empty href and two hrefs that
\* collapse to one URL has been extracted.
C10_Witness ==
    /\ pc = "return"
    /\ server[arg].ok
    /\ \E h \in TrimmedHrefs(server[arg].body) : h[1] = "#"
    /\ Cardinality(ret.value) < Cardinality(TrimmedHrefs(server[arg].body))
    /\ WithoutFragment(arg) \in ret.value

----------------------------------------------------------------------------
(* sorted() on strings: comparison by code points. *)

\* The code points of the characters an atom stands for.
CodePoints(c) ==
    CASE c = "." -> <<46>>
      [] c = "/" -> <<47>>
      [] c = "?" -> <<63>>
      [] c = "Data-Sheets" -> <<68, 97, 116, 97, 45, 83, 104, 101, 101, 116, 115>>
      [] c = "a" -> <<97>>
      [] c = "b" -> <<98>>
      [] c = "c" -> <<99>>
      [] c = "d" -> <<100>>
      [] c = "data-sheets" -> <<100, 97, 116, 97, 45, 115, 104, 101, 101, 116, 115>>
      [] c = "f" -> <<102>>
      [] c = HomeOrigin -> <<104, 116, 116, 112, 115, 58, 47, 47, 119>>
      [] c = "p" -> <<112>>
      [] c = "products" -> <<112, 114, 111, 100, 117, 99, 116, 115>>
      [] c = "v" -> <<118>>
      [] c = "U0130" -> <<304>>
      [] OTHER -> <<120>>

RECURSIVE Ords(_)
Ords(s) == IF s = <<>> THEN <<>> ELSE CodePoints(Head(s)) \o Ords(Tail(s))

\* a <= b for lists of code points.
RECURSIVE LexLeq(_, _)
LexLeq(a, b) ==
    IF a = <<>> THEN TRUE
    ELSE IF b = <<>> THEN FALSE
    ELSE IF Head(a) # Head(b) THEN Head(a) < Head(b)
    ELSE LexLeq(Tail(a), Tail(b))

\* sorted(S) for a set of strings.
RECURSIVE sorted(_)
sorted(S) ==
    IF S = {} THEN <<>>
    ELSE LET m == CHOOSE x \in S : \A y \in S : LexLeq(Ords(x), Ords(y))
         IN  <<m>> \o sorted(S \ {m})

----------------------------------------------------------------------------
(* The thread pools and the downloader. *)

NoResult == [raised |-> FALSE, value |-> <<>>, fetched |-> <<>>]

\* A future of phase 1, as submitted.
ResolveFuture(url) ==
    [url |-> url, st |-> "queued", res |-> NoResult, consumed |-> FALSE]

\* A future of phase 2, as submitted: job is (source_url, pdf_url), url the
\* argument of download_pdf.
DownloadFuture(job) ==
    [job |-> job, url |-> job[2], st |-> "queued", raised |-> FALSE,
     cleaned |-> <<>>, path |-> <<>>, content |-> <<>>, consumed |-> FALSE]

\* Tasks a worker has taken and not finished.
Running(tasks) == {i \in 1..Len(tasks) : tasks[i].st \notin {"queued", "done"}}

\* Mutant of CanStart: the pool never has a free worker.
CanStart_NoFreeWorker(tasks, i, max_workers) ==
    /\ i \in 1..Len(tasks)
    /\ tasks[i].st = "queued"
    /\ \A k \in 1..(i - 1) : tasks[k].st # "queued"
    /\ Cardinality(Running(tasks)) < 0

\* A worker takes the oldest queued task, when one of max_workers is free.
CanStart(tasks, i, max_workers) ==
    /\ i \in 1..Len(tasks)
    /\ tasks[i].st = "queued"
    /\ \A k \in 1..(i - 1) : tasks[k].st # "queued"
    /\ Cardinality(Running(tasks)) < max_workers

AllDone(tasks) == \A i \in 1..Len(tasks) : tasks[i].st = "done"

\* Mutant of AllCollected: the loop is left after the first future.
AllCollected_AfterFirst(tasks) ==
    tasks = <<>> \/ \E i \in 1..Len(tasks) : tasks[i].consumed

\* as_completed has yielded every future.
AllCollected(tasks) == \A i \in 1..Len(tasks) : tasks[i].consumed

DefaultName == <<"datasheet", ".", "p", "d", "f">>

\* Mutant of FileNameOf: the part before the last "/" is taken ([0] for [-1]).
FileNameOf_WrongPart(cleaned_url) ==
    IF rfind(cleaned_url, <<"/">>) <= 0 THEN DefaultName
    ELSE Slice(cleaned_url, 0, rfind(cleaned_url, <<"/">>))

\* cleaned_url.rsplit("/", 1)[-1] or "datasheet.pdf"
FileNameOf(cleaned_url) ==
    IF LastSegment(cleaned_url) = <<>> THEN DefaultName
    ELSE LastSegment(cleaned_url)

\* Mutant of Exists: the existence check is missing.
Exists_NoCheck(filename) == FALSE

\* filepath.exists()
Exists(filename) == filename \in DOMAIN files

\* download_pdf up to the existence check: invalid input raises, an existing
\* file ends the call with its path, otherwise the fetch is next.
DStart(j) ==
    /\ CanStart(dtasks, j, DOWNLOAD_WORKERS)
    /\ LET cleaned_url == clean_pdf_url(dtasks[j].url)
       IN  IF ~Truthy(cleaned_url)
               THEN dtasks' = [dtasks EXCEPT ![j].st = "done", ![j].raised = TRUE]
           ELSE IF Exists(FileNameOf(cleaned_url))
               THEN dtasks' = [dtasks EXCEPT ![j].st = "done",
                                             ![j].cleaned = cleaned_url,
                                             ![j].path = FileNameOf(cleaned_url)]
           ELSE dtasks' = [dtasks EXCEPT ![j].st = "fetch",
                                         ![j].cleaned = cleaned_url,
                                         ![j].path = FileNameOf(cleaned_url)]
    /\ UNCHANGED <<pc, arg, ret, server, files, rtasks, resolved, download_jobs,
                   printed, net, wlog>>

\* Mutant of FetchRaises: raise_for_status() is missing.
FetchRaises_Never(response) == FALSE

\* requests.get raising, or response.raise_for_status() raising.
FetchRaises(response) == ~response.ok

\* requests.get(cleaned_url) and raise_for_status().
DFetch(j) ==
    /\ j \in 1..Len(dtasks)
    /\ dtasks[j].st = "fetch"
    /\ LET response == HttpGet(dtasks[j].cleaned)
       IN  IF FetchRaises(response)
               THEN dtasks' = [dtasks EXCEPT ![j].st = "done", ![j].raised = TRUE,
                                             ![j].path = <<>>]
           ELSE dtasks' = [dtasks EXCEPT ![j].st = "write",
                                         ![j].content = response.body]
    /\ net' = Sent(<<dtasks[j].cleaned>>)
    /\ UNCHANGED <<pc, arg, ret, server, files, rtasks, resolved, download_jobs,
                   printed, wlog>>

\* Mutant of DWrite: the path is returned but nothing is written.
DWrite_NoWrite(j) ==
    /\ j \in 1..Len(dtasks)
    /\ dtasks[j].st = "write"
    /\ dtasks' = [dtasks EXCEPT ![j].st = "done"]
    /\ UNCHANGED <<pc, arg, ret, server, files, rtasks, resolved, download_jobs,
                   printed, net, wlog>>

\* filepath.write_bytes(response.content); return filepath.
DWrite(j) ==
    /\ j \in 1..Len(dtasks)
    /\ dtasks[j].st = "write"
    /\ files' = [n \in DOMAIN files \cup {dtasks[j].path} |->
                    IF n = dtasks[j].path THEN dtasks[j].content ELSE files[n]]
    /\ wlog' = wlog \cup {[task |-> j, url |-> dtasks[j].url,
                           name |-> dtasks[j].path,
                           existed |-> Exists(dtasks[j].path)]}
    /\ dtasks' = [dtasks EXCEPT ![j].st = "done"]
    /\ UNCHANGED <<pc, arg, ret, server, rtasks, resolved, download_jobs,
                   printed, net>>

----------------------------------------------------------------------------
(* main. *)

DatasheetMarker == <<"data-sheets">>

\* Console lines.
NoPdfLine(source_url) ==
    [kind |-> "No PDF link found", source |-> source_url, pdf |-> <<>>, file |-> <<>>]
QueuedLine(source_url, pdf_url) ==
    [kind |-> "already queued", source |-> source_url, pdf |-> pdf_url, file |-> <<>>]
SavedLine(source_url, pdf_url, name) ==
    [kind |-> "saved to", source |-> source_url, pdf |-> pdf_url, file |-> name]
FailedLine(source_url, pdf_url) ==
    [kind |-> "failed", source |-> source_url, pdf |-> pdf_url, file |-> <<>>]

Print1(line) == printed (+) SetToBag({line})

\* Lines 77-85: fetch the landing page, keep and sort the datasheet URLs,
\* make the output directory, submit one resolution per URL.  A failed
\* fetch leaves main with the error.
MainStart ==
    /\ pc = "start"
    /\ LET r == extract_urls(LandingUrl)
           datasheet_urls ==
               sorted({url \in r.value : find(lower(url), DatasheetMarker) # -1})
       IN  /\ net' = Sent(r.fetched)
           /\ IF r.raised
                  THEN /\ pc' = "error"
                       /\ rtasks' = rtasks
              ELSE /\ pc' = "resolving"
                   /\ rtasks' = [i \in 1..Len(datasheet_urls) |->
                                    ResolveFuture(datasheet_urls[i])]
    /\ UNCHANGED <<arg, ret, server, files, resolved, download_jobs, dtasks,
                   printed, wlog>>

\* A worker of the first pool takes a queued resolution.
RStart(i) ==
    /\ CanStart(rtasks, i, RESOLVE_WORKERS)
    /\ rtasks' = [rtasks EXCEPT ![i].st = "running"]
    /\ UNCHANGED <<pc, arg, ret, server, files, resolved, download_jobs, dtasks,
                   printed, net, wlog>>

\* The worker runs resolve_pdf_link to its return or its exception.
RFinish(i) ==
    /\ i \in 1..Len(rtasks)
    /\ rtasks[i].st = "running"
    /\ LET r == resolve_pdf_link(rtasks[i].url)
       IN  /\ rtasks' = [rtasks EXCEPT ![i].st = "done", ![i].res = r]
           /\ net' = Sent(r.fetched)
    /\ UNCHANGED <<pc, arg, ret, server, files, resolved, download_jobs, dtasks,
                   printed, wlog>>

\* Mutant of CollectResolved: the task's exception is swallowed and reported
\* as a missing PDF link.
CollectResolved_Swallows(i) ==
    /\ pc = "resolving"
    /\ i \in 1..Len(rtasks)
    /\ rtasks[i].st = "done"
    /\ ~rtasks[i].consumed
    /\ rtasks' = [rtasks EXCEPT ![i].consumed = TRUE]
    /\ IF ~rtasks[i].res.raised /\ Truthy(rtasks[i].res.value[2])
           THEN /\ resolved' = Append(resolved, rtasks[i].res.value)
                /\ printed' = printed
       ELSE /\ printed' = Print1(NoPdfLine(rtasks[i].url))
            /\ resolved' = resolved
    /\ UNCHANGED <<pc, arg, ret, server, files, download_jobs, dtasks, net, wlog>>

\* Lines 86-91: as_completed yields a finished future; future.result()
\* re-raises the task's exception, which leaves the loop.
CollectResolved(i) ==
    /\ pc = "resolving"
    /\ i \in 1..Len(rtasks)
    /\ rtasks[i].st = "done"
    /\ ~rtasks[i].consumed
    /\ rtasks' = [rtasks EXCEPT ![i].consumed = TRUE]
    /\ LET source_url == rtasks[i].res.value[1]
           pdf_url    == rtasks[i].res.value[2]
       IN  IF rtasks[i].res.raised
               THEN /\ pc' = "resolve_raised"
                    /\ UNCHANGED <<resolved, printed>>
           ELSE IF Truthy(pdf_url)
               THEN /\ resolved' = Append(resolved, <<source_url, pdf_url>>)
                    /\ UNCHANGED <<pc, printed>>
           ELSE /\ printed' = Print1(NoPdfLine(source_url))
                /\ UNCHANGED <<pc, resolved>>
    /\ UNCHANGED <<arg, ret, server, files, download_jobs, dtasks, net, wlog>>

\* Mutant of ResolveAbort: the pool is shut down without waiting.
ResolveAbort_NoWait ==
    /\ pc = "resolve_raised"
    /\ pc' = "error"
    /\ UNCHANGED <<arg, ret, server, files, rtasks, resolved, download_jobs,
                   dtasks, printed, net, wlog>>

\* The with block of line 84 ends on an exception: shutdown(wait=True) lets
\* every submitted resolution finish, then the exception leaves main.
ResolveAbort ==
    /\ pc = "resolve_raised"
    /\ AllDone(rtasks)
    /\ pc' = "error"
    /\ UNCHANGED <<arg, ret, server, files, rtasks, resolved, download_jobs,
                   dtasks, printed, net, wlog>>

\* Mutant of DedupLoop: the key is the source URL.
RECURSIVE DedupLoop_BySource(_, _, _, _)
DedupLoop_BySource(pairs, seen, jobs, dropped) ==
    IF pairs = <<>> THEN [jobs |-> jobs, dropped |-> dropped]
    ELSE IF Head(pairs)[1] \notin seen
        THEN DedupLoop_BySource(Tail(pairs), seen \cup {Head(pairs)[1]},
                                Append(jobs, Head(pairs)), dropped)
    ELSE DedupLoop_BySource(Tail(pairs), seen, jobs, Append(dropped, Head(pairs)))

\* The loop of lines 95-100 over the pairs that are left.
RECURSIVE DedupLoop(_, _, _, _)
DedupLoop(pairs, seen, jobs, dropped) ==
    IF pairs = <<>> THEN [jobs |-> jobs, dropped |-> dropped]
    ELSE LET source_url == Head(pairs)[1]
             pdf_url    == Head(pairs)[2]
         IN  IF pdf_url \notin seen
                 THEN DedupLoop(Tail(pairs), seen \cup {pdf_url},
                                Append(jobs, Head(pairs)), dropped)
             ELSE DedupLoop(Tail(pairs), seen, jobs, Append(dropped, Head(pairs)))

PrintAll(lines) ==
    printed (+) [l \in {lines[i] : i \in 1..Len(lines)} |->
                    Cardinality({i \in 1..Len(lines) : lines[i] = l})]

\* Mutant of Deduplicate: a dropped pair is not reported.
Deduplicate_Silent ==
    /\ pc = "resolving"
    /\ AllCollected(rtasks)
    /\ download_jobs' = DedupLoop(resolved, {}, <<>>, <<>>).jobs
    /\ pc' = "deduplicated"
    /\ UNCHANGED <<arg, ret, server, files, rtasks, resolved, dtasks, printed,
                   net, wlog>>

\* Lines 93-100, once the first pool has been drained.
Deduplicate ==
    /\ pc = "resolving"
    /\ AllCollected(rtasks)
    /\ LET d == DedupLoop(resolved, {}, <<>>, <<>>)
       IN  /\ download_jobs' = d.jobs
           /\ printed' = PrintAll([i \in 1..Len(d.dropped) |->
                                      QueuedLine(d.dropped[i][1], d.dropped[i][2])])
    /\ pc' = "deduplicated"
    /\ UNCHANGED <<arg, ret, server, files, rtasks, resolved, dtasks, net, wlog>>

\* Lines 102-106: one download_pdf(pdf_url, output_dir) per job.
SubmitDownloads ==
    /\ pc = "deduplicated"
    /\ dtasks' = [j \in 1..Len(download_jobs) |-> DownloadFuture(download_jobs[j])]
    /\ pc' = "downloading"
    /\ UNCHANGED <<arg, ret, server, files, rtasks, resolved, download_jobs,
                   printed, net, wlog>>

\* Mutant of CollectDownloaded: no try/except around future.result().
CollectDownloaded_NoTry(j) ==
    /\ pc = "downloading"
    /\ j \in 1..Len(dtasks)
    /\ dtasks[j].st = "done"
    /\ ~dtasks[j].consumed
    /\ dtasks' = [dtasks EXCEPT ![j].consumed = TRUE]
    /\ IF dtasks[j].raised
           THEN pc' = "error" /\ printed' = printed
       ELSE /\ pc' = pc
            /\ printed' = Print1(SavedLine(dtasks[j].job[1], dtasks[j].job[2],
                                           dtasks[j].path))
    /\ UNCHANGED <<arg, ret, server, files, rtasks, resolved, download_jobs,
                   net, wlog>>

\* Lines 107-113: a finished download is reported; its exception is caught.
CollectDownloaded(j) ==
    /\ pc = "downloading"
    /\ j \in 1..Len(dtasks)
    /\ dtasks[j].st = "done"
    /\ ~dtasks[j].consumed
    /\ dtasks' = [dtasks EXCEPT ![j].consumed = TRUE]
    /\ LET source_url == dtasks[j].job[1]
           pdf_url    == dtasks[j].job[2]
       IN  printed' = IF dtasks[j].raised
                          THEN Print1(FailedLine(source_url, pdf_url))
                      ELSE Print1(SavedLine(source_url, pdf_url, dtasks[j].path))
    /\ UNCHANGED <<pc, arg, ret, server, files, rtasks, resolved, download_jobs,
                   net, wlog>>

\* The second with block ends and main returns.
MainReturn ==
    /\ pc = "downloading"
    /\ AllCollected(dtasks)
    /\ pc' = "done"
    /\ UNCHANGED <<arg, ret, server, files, rtasks, resolved, download_jobs,
                   dtasks, printed, net, wlog>>

----------------------------------------------------------------------------
(* The web and the output directory of a run of main. *)

SrcA == <<HomeOrigin, "/", "data-sheets", "/", "a">>
SrcB == <<HomeOrigin, "/", "Data-Sheets", "/", "b">>
SrcC == <<HomeOrigin, "/", "data-sheets", "/", "c", ".", "p", "d", "f", "?", "v">>

PdfX1 == <<HomeOrigin, "/", "f", "/", "x", ".", "p", "d", "f">>
PdfX2 == <<"https://cdn.fortinet.com", "/", "x", ".", "p", "d", "f">>
PdfC  == <<HomeOrigin, "/", "data-sheets", "/", "c", ".", "p", "d", "f">>

HrefA == Anchor(<<"/", "data-sheets", "/", "a">>)
HrefB == Anchor(<<" ", "/", "Data-Sheets", "/", "b", "#", "top", " ">>)
HrefC == Anchor(<<"/", "data-sheets", "/", "c", ".", "p", "d", "f", "?", "v">>)
HrefOther == Anchor(<<"/", "products">>)

LandingBodies ==
    { <<HrefA, HrefB, HrefC, HrefOther>>,
      <<HrefB, HrefOther, HrefA, HrefA>>,
      <<HrefC, Anchor(<<>>), HrefA>>,
      <<HrefOther, NoHrefAnchor>> }

PageNone == <<Anchor(<<"/", "a">>), NoHrefAnchor>>
PageX1   == <<Anchor(<<"#", "x">>), Anchor(<<"/", "f", "/", "x", ".", "p", "d", "f", "?", "dl">>)>>
PageX2   == <<Anchor(<<"https://cdn.fortinet.com", "/", "x", ".", "p", "d", "f", "#", "p">>)>>
PageC    == <<Anchor(<<"c", ".", "p", "d", "f">>)>>

Page(b) == [ok |-> TRUE, body |-> b]

OldBytes == <<"old">>

FileX == <<"x", ".", "p", "d", "f">>
FileC == <<"c", ".", "p", "d", "f">>

Init ==
    /\ pc = "start"
    /\ ret = None
    /\ \E landing \in {HttpError} \cup {Page(b) : b \in LandingBodies},
          ra \in {HttpError, Page(PageNone), Page(PageX1), Page(PageC)},
          rb \in {HttpError, Page(PageNone), Page(PageX1), Page(PageX2)},
          okX1 \in BOOLEAN, okX2 \in BOOLEAN, okC \in BOOLEAN :
           server = (LandingUrl :> landing) @@ (SrcA :> ra) @@ (SrcB :> rb)
                    @@ (PdfX1 :> IF okX1 THEN Page(PdfX1) ELSE HttpError)
                    @@ (PdfX2 :> IF okX2 THEN Page(PdfX2) ELSE HttpError)
                    @@ (PdfC :> IF okC THEN Page(PdfC) ELSE HttpError)
    /\ \E present \in SUBSET {FileX, FileC} :
           files = [n \in present |-> OldBytes]
    /\ arg = files
    /\ net = EmptyBag
    /\ MainIdle

ResolveWorkerStarts == \E i \in 1..Len(rtasks) : RStart(i)
ResolveWorkerFinishes == \E i \in 1..Len(rtasks) : RFinish(i)
MainCollectsResolved == \E i \in 1..Len(rtasks) : CollectResolved(i)
DownloadWorkerStarts == \E j \in 1..Len(dtasks) : DStart(j)
DownloadWorkerFetches == \E j \in 1..Len(dtasks) : DFetch(j)
DownloadWorkerWrites == \E j \in 1..Len(dtasks) : DWrite(j)
MainCollectsDownloaded == \E j \in 1..Len(dtasks) : CollectDownloaded(j)

Next ==
    \/ MainStart
    \/ ResolveWorkerStarts
    \/ ResolveWorkerFinishes
    \/ MainCollectsResolved
    \/ ResolveAbort
    \/ Deduplicate
    \/ SubmitDownloads
    \/ DownloadWorkerStarts
    \/ DownloadWorkerFetches
    \/ DownloadWorkerWrites
    \/ MainCollectsDownloaded
    \/ MainReturn

Spec == Init /\ [][Next]_vars

\* Scheduling.  The main thread and the pool workers are scheduled by the
\* interpreter, and every HTTP request returns or fails within its timeout
\* (lines 7-8, 15, 40, 69): a step that stays possible is eventually taken.
\*
\* The steps that call no function of the program:
NextLight ==
    \/ ResolveWorkerStarts
    \/ MainCollectsResolved
    \/ ResolveAbort
    \/ Deduplicate
    \/ SubmitDownloads
    \/ DownloadWorkerFetches
    \/ DownloadWorkerWrites
    \/ MainCollectsDownloaded
    \/ MainReturn

\* The three steps that run extract_urls, resolve_pdf_link and clean_pdf_url
\* change the state wherever their guard holds; the guard is their ENABLED.
MainStartEnabled == pc = "start"
ResolveWorkerFinishesEnabled ==
    \E i \in 1..Len(rtasks) : rtasks[i].st = "running"
DownloadWorkerStartsEnabled ==
    \E j \in 1..Len(dtasks) : CanStart(dtasks, j, DOWNLOAD_WORKERS)

\* Weak fairness of every step; for the three steps above WF_vars(A) is
\* written out, <>[]ENABLED <<A>>_vars => []<><<A>>_vars, with the guard
\* for ENABLED.
Fairness ==
    /\ WF_vars(NextLight)
    /\ <>[]MainStartEnabled => []<><<MainStart>>_vars
    /\ <>[]ResolveWorkerFinishesEnabled => []<><<ResolveWorkerFinishes>>_vars
    /\ <>[]DownloadWorkerStartsEnabled => []<><<DownloadWorkerStarts>>_vars

SpecFair == Init /\ [][Next]_vars /\ Fairness

----------------------------------------------------------------------------
(* main on a landing page with one datasheet link, over many link texts. *)

\* Pieces of the link texts.
JobPieces ==
    { <<".", "p", "d", "f">>, <<".", "P", "D", "F">>, <<"U0130">>, <<"/">>,
      <<"?">>, <<"a">> }

JobStrings == Concats(JobPieces, MaxSegs - 1)

\* The link is the datasheet itself ("direct"), or stands on the datasheet
\* page of SrcA, which is served ("page") or not ("page fails").
JobRoutes == {"direct", "page", "page fails"}

JobHref(s, route) ==
    IF route = "direct" THEN <<"/", "data-sheets", "/">> \o s
    ELSE <<"/", "f", "/">> \o s

\* The PDF URL that the link leads to, None without a marker.
JobTarget(s, route) ==
    clean_pdf_url(urljoin(IF route = "direct" THEN LandingUrl ELSE SrcA,
                          JobHref(s, route)))

\* The servers: the landing page, the datasheet page, and the PDF, which is
\* served or not.
JobServer(s, route, ok) ==
    [u \in {LandingUrl, SrcA}
           \cup (IF Truthy(JobTarget(s, route)) THEN {JobTarget(s, route)} ELSE {})
        |-> IF u = LandingUrl
                THEN Page(IF route = "direct" THEN <<Anchor(JobHref(s, route))>>
                          ELSE <<HrefA>>)
            ELSE IF u = SrcA
                THEN (IF route = "page" THEN Page(<<Anchor(JobHref(s, route))>>)
                      ELSE HttpError)
            ELSE IF ok THEN Page(u) ELSE HttpError]

InitJob ==
    /\ pc = "start"
    /\ ret = None
    /\ \E s \in JobStrings, route \in JobRoutes, ok \in BOOLEAN :
           server = JobServer(s, route, ok)
    /\ \E present \in SUBSET {DefaultName} :
           files = [n \in present |-> OldBytes]
    /\ arg = files
    /\ net = EmptyBag
    /\ MainIdle

SpecJob == InitJob /\ [][Next]_vars

----------------------------------------------------------------------------
(* download_pdf called twice in sequence with the same arguments. *)

TwiceUrls ==
    { PdfX1,
      <<HomeOrigin, "/", "f", "/", "x", ".", "P", "D", "F", "?", "dl">>,
      <<HomeOrigin, "/", "f", "/", "U0130", ".", "p", "d", "f", "/", "z">>,
      <<HomeOrigin, "/", "a">> }

FileXUpper == <<"x", ".", "P", "D", "F">>

InitTwice ==
    /\ pc = "first"
    /\ \E url \in TwiceUrls, present \in SUBSET {FileX, FileXUpper, DefaultName},
          ok \in BOOLEAN :
           /\ files = [n \in present |-> OldBytes]
           /\ arg = [url |-> url, files0 |-> files]
           /\ server = IF Truthy(clean_pdf_url(url))
                           THEN (clean_pdf_url(url) :>
                                    IF ok THEN Page(clean_pdf_url(url)) ELSE HttpError)
                       ELSE <<>>
           /\ dtasks = <<DownloadFuture(<<url, url>>)>>
    /\ ret = None
    /\ net = EmptyBag
    /\ rtasks = <<>>
    /\ resolved = <<>>
    /\ download_jobs = <<>>
    /\ printed = EmptyBag
    /\ wlog = {}

\* The first call is over (returned or raised); the second begins.
SecondCall ==
    /\ pc = "first"
    /\ AllDone(dtasks)
    /\ ret' = [first |-> dtasks[1], fetches |-> BagCardinality(net), files |-> files]
    /\ dtasks' = <<DownloadFuture(<<arg.url, arg.url>>)>>
    /\ pc' = "second"
    /\ UNCHANGED <<arg, server, files, rtasks, resolved, download_jobs, printed,
                   net, wlog>>

\* The second call is over.
TwiceReturn ==
    /\ pc = "second"
    /\ AllDone(dtasks)
    /\ pc' = "finished"
    /\ UNCHANGED <<arg, ret, server, files, rtasks, resolved, download_jobs,
                   dtasks, printed, net, wlog>>

NextTwice ==
    \/ DownloadWorkerStarts
    \/ DownloadWorkerFetches
    \/ DownloadWorkerWrites
    \/ SecondCall
    \/ TwiceReturn

SpecTwice == InitTwice /\ [][NextTwice]_vars

----------------------------------------------------------------------------
(* Claims about main and the downloader. *)

PdfUrlsOf(pairs) == {pairs[k][2] : k \in 1..Len(pairs)}

PairsOf(pairs) == {pairs[k] : k \in 1..Len(pairs)}

\* C1 as stated: no write_bytes lands on a path where a file exists at the
\* moment of the write, whether the file was there before the run or was
\* written earlier in the run by another job.
C1_Orig_NoWriteOverExistingFile ==
    \A w \in wlog : ~w.existed

\* C1 amended: a file present before the run is never written, and keeps
\* its bytes to the end of the run.
C1_FilesPresentBeforeRunAreNeverWritten ==
    /\ \A n \in DOMAIN arg : n \in DOMAIN files /\ files[n] = arg[n]
    /\ \A w \in wlog : w.name \notin DOMAIN arg

\* One job skipped a file that was present before the run while another
\* job wrote a new file.
C1_Witness ==
    /\ pc = "done"
    /\ \E j \in 1..Len(dtasks) :
           ~dtasks[j].raised /\ dtasks[j].path \in DOMAIN arg
    /\ \E w \in wlog : TRUE

\* C2: once main has deduplicated, the job list holds every resolved PDF
\* URL exactly once, every resolved pair that is not a job has exactly one
\* "already queued" line (a job has none), and the download tasks are the
\* jobs, one each, in order.
C2_JobsHoldEachResolvedPdfUrlOnce ==
    pc \in {"deduplicated", "downloading", "done"} =>
        /\ PdfUrlsOf(download_jobs) = PdfUrlsOf(resolved)
        /\ PairsOf(download_jobs) \subseteq PairsOf(resolved)
        /\ \A a, b \in 1..Len(download_jobs) :
               a # b => download_jobs[a][2] # download_jobs[b][2]
        /\ \A k \in 1..Len(resolved) :
               CopiesIn(QueuedLine(resolved[k][1], resolved[k][2]), printed) =
                   IF resolved[k] \in PairsOf(download_jobs) THEN 0 ELSE 1
        /\ Len(dtasks) \in {0, Len(download_jobs)}
        /\ \A j \in 1..Len(dtasks) :
               dtasks[j].job = download_jobs[j] /\ dtasks[j].url = download_jobs[j][2]

\* Two sources resolved to one PDF URL; one job was kept and run.
C2_Witness ==
    /\ pc = "done"
    /\ Len(resolved) > Len(download_jobs)
    /\ Len(dtasks) >= 1
    /\ \E l \in BagToSet(printed) : l.kind = "already queued"

\* Result lines of one job.
FailedCount(t) == CopiesIn(FailedLine(t.job[1], t.job[2]), printed)
SavedCount(t) == CopiesIn(SavedLine(t.job[1], t.job[2], t.path), printed)

\* Some step of the download phase is possible: a worker can take, fetch or
\* write, or main can collect a finished job or return.
DownloadPhaseCanStep ==
    \/ \E j \in 1..Len(dtasks) : CanStart(dtasks, j, DOWNLOAD_WORKERS)
    \/ \E j \in 1..Len(dtasks) : dtasks[j].st \in {"fetch", "write"}
    \/ \E j \in 1..Len(dtasks) : dtasks[j].st = "done" /\ ~dtasks[j].consumed
    \/ \A j \in 1..Len(dtasks) : dtasks[j].consumed

\* C4: while downloads exist main is in the download phase or has returned,
\* never ended by an error; the phase can always go on; and when main has
\* returned every job has finished and has exactly one line of its own:
\* "failed" when it raised, "saved to" otherwise.
C4_DownloadFailuresAreReportedPerJob ==
    /\ dtasks # <<>> => pc \in {"downloading", "done"}
    /\ pc = "downloading" => DownloadPhaseCanStep
    /\ pc \in {"downloading", "done"} =>
           \A j \in 1..Len(dtasks) :
               /\ pc = "done" => dtasks[j].st = "done" /\ dtasks[j].consumed
               /\ dtasks[j].consumed =>
                      /\ FailedCount(dtasks[j]) = IF dtasks[j].raised THEN 1 ELSE 0
                      /\ SavedCount(dtasks[j]) = IF dtasks[j].raised THEN 0 ELSE 1
               /\ ~dtasks[j].consumed =>
                      FailedCount(dtasks[j]) = 0 /\ SavedCount(dtasks[j]) = 0

\* main returned after one job failed and another one saved its file.
C4_Witness ==
    /\ pc = "done"
    /\ \E j \in 1..Len(dtasks) : dtasks[j].raised
    /\ \E j \in 1..Len(dtasks) : ~dtasks[j].raised /\ dtasks[j].path \notin DOMAIN arg

\* C6: whenever a download task exists, and from the moment the job list is
\* built, every resolution task has finished and been collected, the job
\* list is the deduplication of all collected results, and main is past
\* phase 1.
C6_DownloadsStartAfterResolutionIsOver ==
    dtasks # <<>> \/ pc \in {"deduplicated", "downloading", "done"} =>
        /\ pc \in {"deduplicated", "downloading", "done"}
        /\ \A i \in 1..Len(rtasks) : rtasks[i].st = "done" /\ rtasks[i].consumed
        /\ Len(resolved) =
               Cardinality({i \in 1..Len(rtasks) : Truthy(rtasks[i].res.value[2])})
        /\ PdfUrlsOf(download_jobs) = PdfUrlsOf(resolved)
        /\ dtasks # <<>> => Len(dtasks) = Len(download_jobs)

\* A download is fetching after three resolutions were collected.
C6_Witness ==
    /\ Len(rtasks) = 3
    /\ \E j \in 1..Len(dtasks) : dtasks[j].st = "fetch"
    /\ \E j \in 1..Len(dtasks) : dtasks[j].st = "queued"

----------------------------------------------------------------------------
(* The final files of a run, against the run that resolves and downloads   *)
(* one URL at a time in submission order.                                  *)

RefLanding == extract_urls(LandingUrl)

RefCandidates ==
    sorted({url \in RefLanding.value : find(lower(url), DatasheetMarker) # -1})

RefRaises ==
    \/ RefLanding.raised
    \/ LET cands == RefCandidates
       IN  \E i \in 1..Len(cands) : resolve_pdf_link(cands[i]).raised

RefResolved ==
    LET cands == RefCandidates
    IN  SelectSeq([i \in 1..Len(cands) |-> resolve_pdf_link(cands[i]).value],
                  LAMBDA v : Truthy(v[2]))

RefJobs == DedupLoop(RefResolved, {}, <<>>, <<>>).jobs

\* The file name of a PDF URL: its text after the last "/" up to the marker.
RefName(pdf_url) ==
    IF LastSegment(clean_pdf_url(pdf_url)) = <<>> THEN DefaultName
    ELSE LastSegment(clean_pdf_url(pdf_url))

RECURSIVE RefDownload(_, _)
RefDownload(jobs, fs) ==
    IF jobs = <<>> THEN fs
    ELSE IF RefName(Head(jobs)[2]) \in DOMAIN fs
             \/ ~HttpGet(clean_pdf_url(Head(jobs)[2])).ok
        THEN RefDownload(Tail(jobs), fs)
    ELSE RefDownload(Tail(jobs),
                     (RefName(Head(jobs)[2]) :> HttpGet(clean_pdf_url(Head(jobs)[2])).body)
                         @@ fs)

RefFinalFiles == IF RefRaises THEN arg ELSE RefDownload(RefJobs, arg)

\* Two jobs with different PDF URLs and one file name.
NameClash ==
    LET jobs == RefJobs
    IN  \E a, b \in 1..Len(jobs) :
            jobs[a][2] # jobs[b][2] /\ RefName(jobs[a][2]) = RefName(jobs[b][2])

SameFilesAsReferenceRun ==
    /\ files = RefFinalFiles
    /\ pc = "done" => PdfUrlsOf(download_jobs) = PdfUrlsOf(RefJobs)

\* C7 as stated: for fixed servers and a fixed initial directory, every run
\* ends with the file names and bytes of the run that takes the URLs one at
\* a time in submission order (itself one of the runs), and with the same
\* set of job PDF URLs.
C7_Orig_FinalFilesAreOrderIndependent ==
    pc \in {"done", "error"} => SameFilesAsReferenceRun

\* C7 amended: the same, for runs in which no two jobs with different PDF
\* URLs have the same file name.
C7_FinalFilesAreOrderIndependentWithoutNameClash ==
    pc \in {"done", "error"} /\ ~NameClash => SameFilesAsReferenceRun

\* A run without a name clash wrote two files after collecting the
\* resolutions in another order than they were submitted.
C7_Witness ==
    /\ pc = "done"
    /\ ~NameClash
    /\ resolved # RefResolved
    /\ Cardinality(wlog) >= 2

----------------------------------------------------------------------------
(* Claims about two download_pdf calls in sequence. *)

CallStartFiles == IF pc = "first" THEN arg.files0 ELSE ret.files
CallStartFetches == IF pc = "first" THEN 0 ELSE ret.fetches

\* C5: a finished download_pdf call that made its fetch and got an error
\* from the server raised and left the directory as it was when the call
\* began: same file names, same bytes.
C5_FailedFetchLeavesDirectoryUnchanged ==
    \A j \in 1..Len(dtasks) :
        /\ dtasks[j].st = "done"
        /\ BagCardinality(net) > CallStartFetches
        /\ ~HttpGet(dtasks[j].cleaned).ok
        => /\ dtasks[j].raised
           /\ files = CallStartFiles

\* A call whose fetch failed is over, in a directory that holds files.
C5_Witness ==
    /\ pc = "first"
    /\ dtasks[1].st = "done"
    /\ dtasks[1].raised
    /\ BagCardinality(net) = 1
    /\ DOMAIN files # {}

----------------------------------------------------------------------------
(* Claims about errors, the console and termination of main. *)

\* The landing-page fetch of line 77 raises.
LandingRaises == ~HttpGet(LandingUrl).ok

\* A resolution task has raised.
ResolutionRaised ==
    \E i \in 1..Len(rtasks) : rtasks[i].st = "done" /\ rtasks[i].res.raised

\* Nothing of phase 2 has happened: no job, no download task, no write, the
\* directory as it was.
NoDownloadNoWrite ==
    /\ download_jobs = <<>>
    /\ dtasks = <<>>
    /\ wlog = {}
    /\ files = arg

\* Once an exception is on its way out of main, nothing more is collected
\* or printed.
CollectionStopped ==
    pc \in {"resolve_raised", "error"} =>
        /\ \A i \in 1..Len(rtasks) : rtasks'[i].consumed = rtasks[i].consumed
        /\ resolved' = resolved
        /\ printed' = printed
        /\ pc' \in {"resolve_raised", "error"}

\* C11: when the landing-page fetch raises, or a resolution task has raised,
\* main never reaches deduplication, no download task is submitted and no
\* file is written; after the exception was met nothing more is collected;
\* and main ends with the error, whatever the sibling resolutions returned.
C11_ResolutionErrorAbortsRun ==
    /\ [](LandingRaises /\ pc # "start" => pc = "error" /\ rtasks = <<>>)
    /\ [](LandingRaises \/ ResolutionRaised =>
             /\ pc \in {"start", "resolving", "resolve_raised", "error"}
             /\ NoDownloadNoWrite)
    /\ [][CollectionStopped]_vars
    /\ (LandingRaises \/ ResolutionRaised ~> pc = "error")

\* main ended with the error of one resolution while a sibling had resolved
\* its PDF URL and a third result was never collected.
C11_Witness ==
    /\ pc = "error"
    /\ \E i \in 1..Len(rtasks) : rtasks[i].res.raised /\ rtasks[i].consumed
    /\ \E i \in 1..Len(rtasks) :
           ~rtasks[i].res.raised /\ Truthy(rtasks[i].res.value[2])
    /\ \E i \in 1..Len(rtasks) : rtasks[i].st = "done" /\ ~rtasks[i].consumed
    /\ DOMAIN files # {}

\* The console lines about one datasheet candidate, and those of one kind.
LinesAbout(source_url) ==
    {l \in BagToSet(printed) : l.source = source_url}
CountAbout(source_url) ==
    BagCardinality([l \in LinesAbout(source_url) |-> CopiesIn(l, printed)])
CountOfKinds(kinds) ==
    BagCardinality([l \in {x \in BagToSet(printed) : x.kind \in kinds} |->
                       CopiesIn(l, printed)])

\* The kind of line a collected candidate is due, from its resolution and
\* from the pairs collected before its own.
KindDue(i) ==
    IF ~Truthy(rtasks[i].res.value[2]) THEN {"No PDF link found"}
    ELSE IF \E k \in 1..Len(resolved) :
                /\ resolved[k] = rtasks[i].res.value
                /\ \E e \in 1..(k - 1) : resolved[e][2] = resolved[k][2]
        THEN {"already queued"}
    ELSE {"saved to", "failed"}

\* C12: no candidate ever has two lines; and when main has returned (no
\* resolution raised), every candidate has exactly one line, of the kind it
\* is due, the console holds nothing else, the "saved to" and "failed"
\* lines are as many as the distinct resolved PDF URLs, and the write_bytes
\* calls and the files they wrote are at most that many.
C12_OneLinePerCandidate ==
    /\ \A i \in 1..Len(rtasks) : CountAbout(rtasks[i].url) <= 1
    /\ pc = "done" =>
           /\ \A i \in 1..Len(rtasks) :
                  /\ ~rtasks[i].res.raised
                  /\ CountAbout(rtasks[i].url) = 1
                  /\ \A l \in LinesAbout(rtasks[i].url) : l.kind \in KindDue(i)
           /\ BagCardinality(printed) = Len(rtasks)
           /\ CountOfKinds({"saved to", "failed"})
                  = Cardinality(PdfUrlsOf(resolved))
           /\ Cardinality(wlog) <= Cardinality(PdfUrlsOf(resolved))
           /\ Cardinality({w.name : w \in wlog})
                  <= Cardinality(PdfUrlsOf(resolved))

\* Three candidates: two resolved to one PDF URL, one to none; main returned
\* after one "No PDF link found", one "already queued" and one "saved to"
\* line, and one file was written.
C12_Witness ==
    /\ pc = "done"
    /\ Len(rtasks) = 3
    /\ CountOfKinds({"No PDF link found"}) = 1
    /\ CountOfKinds({"already queued"}) = 1
    /\ CountOfKinds({"saved to"}) = 1
    /\ Cardinality(wlog) = 1

\* While the exception waits at the end of the with block, a task is only
\* taken by a worker or finished by it: none is dropped, a finished one keeps
\* its result, and no result is consumed.
SiblingsOnlyAdvance ==
    pc \in {"resolve_raised", "error"} =>
        /\ Len(rtasks') = Len(rtasks)
        /\ \A i \in 1..Len(rtasks) :
               /\ rtasks'[i].url = rtasks[i].url
               /\ rtasks'[i].consumed = rtasks[i].consumed
               /\ rtasks[i].st = "done" => rtasks'[i] = rtasks[i]
               /\ rtasks[i].st = "running" => rtasks'[i].st \in {"running", "done"}

\* C13: once main has met the exception of a resolution task, the other
\* submitted tasks, running or queued, are not cancelled and their results
\* are not consumed; the error leaves main only when every one of them has
\* returned or raised; and under fair scheduling that happens.
C13_SiblingsRunToCompletion ==
    /\ [][SiblingsOnlyAdvance]_vars
    /\ [](pc = "error" => AllDone(rtasks))
    /\ (pc = "resolve_raised" ~> pc = "error" /\ AllDone(rtasks))
    /\ (ResolutionRaised ~> AllDone(rtasks))

\* main has met the exception while one sibling is running and another is
\* still queued in the pool.
C13_Witness ==
    /\ pc = "resolve_raised"
    /\ \E i \in 1..Len(rtasks) : rtasks[i].st = "running"
    /\ \E i \in 1..Len(rtasks) : rtasks[i].st = "queued"

\* C14: every PDF URL that main collects from resolve_pdf_link, and so the
\* URL of every job and of every download task, is left unchanged by
\* clean_pdf_url; a download task that a worker has taken works on exactly
\* the job's PDF URL, so it did not stop on the invalid-input error of line
\* 64, it raises only when the fetch of that URL fails, and every GET of
\* phase 2 is a GET of a job's PDF URL.
C14_JobUrlsAreAlreadyClean ==
    /\ \A k \in 1..Len(resolved) : clean_pdf_url(resolved[k][2]) = resolved[k][2]
    /\ \A j \in 1..Len(dtasks) :
           /\ dtasks[j].job = download_jobs[j]
           /\ dtasks[j].url = dtasks[j].job[2]
           /\ clean_pdf_url(dtasks[j].url) = dtasks[j].url
           /\ dtasks[j].st # "queued" => dtasks[j].cleaned = dtasks[j].job[2]
           /\ dtasks[j].raised => ~HttpGet(dtasks[j].job[2]).ok
    /\ \A u \in BagToSet(net) :
           \/ u \in {LandingUrl} \cup {rtasks[i].url : i \in 1..Len(rtasks)}
           \/ \E j \in 1..Len(dtasks) : u = dtasks[j].job[2]

\* A job whose PDF URL holds U+0130 was downloaded: the URL was cleaned a
\* second time by download_pdf, at a shifted position, and fetched.
C14_Witness ==
    /\ pc = "done"
    /\ \E j \in 1..Len(dtasks) :
           /\ \E k \in 1..Len(dtasks[j].job[2]) : dtasks[j].job[2][k] = "U0130"
           /\ dtasks[j].job[2] # dtasks[j].job[1]
           /\ dtasks[j].job[2] \in BagToSet(net)
           /\ \E w \in wlog : w.task = j

\* main is over: it returned, or an error left it.
MainOver == pc \in {"done", "error"}

\* The "saved to" and "failed" lines of one download task.
ResultLines(j) ==
    BagCardinality([l \in {x \in BagToSet(printed) :
                              /\ x.kind \in {"saved to", "failed"}
                              /\ x.source = dtasks[j].job[1]
                              /\ x.pdf = dtasks[j].job[2]} |->
                       CopiesIn(l, printed)])

\* A step is possible: main can go on, a worker can take a task, or a task
\* that a worker has taken can take its own next step, whatever the other
\* tasks are doing.
SomeStepPossible ==
    \/ pc \in {"start", "deduplicated"}
    \/ \E i \in 1..Len(rtasks) : CanStart(rtasks, i, RESOLVE_WORKERS)
    \/ \E i \in 1..Len(rtasks) : rtasks[i].st = "running"
    \/ pc = "resolving" /\ \E i \in 1..Len(rtasks) :
                              rtasks[i].st = "done" /\ ~rtasks[i].consumed
    \/ pc = "resolving" /\ AllCollected(rtasks)
    \/ pc = "resolve_raised" /\ AllDone(rtasks)
    \/ pc = "downloading" /\ DownloadPhaseCanStep

\* C15: under fair scheduling main is eventually over.  Until then a step
\* is always possible, and a queued task waits only while every worker of
\* its pool is busy.  When main is over every submitted task has finished;
\* when it returned, every resolution was collected and every download job
\* has exactly one result line; when it ended with an error, the landing
\* fetch or a resolution had raised.
C15_MainTerminates ==
    /\ <>MainOver
    /\ [](~MainOver => SomeStepPossible)
    /\ [](\A i \in 1..Len(rtasks) :
             rtasks[i].st = "queued" =>
                 \/ \E k \in 1..i : CanStart(rtasks, k, RESOLVE_WORKERS)
                 \/ Cardinality(Running(rtasks)) = RESOLVE_WORKERS)
    /\ [](\A j \in 1..Len(dtasks) :
             dtasks[j].st = "queued" =>
                 \/ \E k \in 1..j : CanStart(dtasks, k, DOWNLOAD_WORKERS)
                 \/ Cardinality(Running(dtasks)) = DOWNLOAD_WORKERS)
    /\ [](MainOver => AllDone(rtasks) /\ AllDone(dtasks))
    /\ [](pc = "done" =>
             /\ AllCollected(rtasks)
             /\ Len(dtasks) = Len(download_jobs)
             /\ \A j \in 1..Len(dtasks) : ResultLines(j) = 1
             /\ CountOfKinds({"saved to", "failed"}) = Len(download_jobs))
    /\ [](pc = "error" => LandingRaises \/ ResolutionRaised)

\* main returned after three resolutions and two download jobs, each with
\* its result line.
C15_Witness ==
    /\ pc = "done"
    /\ Len(rtasks) = 3
    /\ Len(dtasks) = 2
    /\ CountOfKinds({"saved to", "failed"}) = 2

\* S ends with ".pdf" in some letter case.
EndsWithPdf(S) == Len(S) >= 4 /\ PdfAt(S, Len(S) - 4)

\* C16: in a download_pdf call whose URL passed the cleaner, what follows the
\* last "/" of the cleaned URL is not empty and ends with ".pdf" in some
\* letter case, so the file name is that segment and never the default
\* name.
C16_FileNameEndsWithPdf ==
    \A j \in 1..Len(dtasks) :
        dtasks[j].st # "queued" /\ Truthy(clean_pdf_url(dtasks[j].url)) =>
            /\ LastSegment(clean_pdf_url(dtasks[j].url)) # <<>>
            /\ EndsWithPdf(LastSegment(clean_pdf_url(dtasks[j].url)))
            /\ FileNameOf(clean_pdf_url(dtasks[j].url)) # DefaultName

====
